---- MODULE Spec2Model ----
(***************************************************************************)
(* Model of the prolame parsing library (src/parser.py): the Ply lexer     *)
(* rules, the LALR(1) grammar with its reduction functions, and the        *)
(* process-wide Program store they fill.                                   *)
(*                                                                         *)
(* Text is a sequence of one-character strings.  A Python str is modelled  *)
(* by such a sequence.  A Term is dynamically typed in Python (int, str or *)
(* tuple), so every Term carries its Python type in the field k:           *)
(*   [k |-> "int", v |-> 7]   [k |-> "str", v |-> <<"X">>]                 *)
(*   [k |-> "tuple", v |-> <<t1, t2, t3>>]                                 *)
(* Python tuples and lists whose layout is fixed (a literal, a rule, a     *)
(* parameter list) are TLA+ tuples.                                        *)
(*                                                                         *)
(* ply.lex and ply.yacc are modelled as Ply 3.11 runs them: lex tries the  *)
(* function rules in order of definition and then the string rules by      *)
(* decreasing length of their regular expression; yacc builds the LALR(1)  *)
(* table of the grammar, settles shift/reduce conflicts by the precedence  *)
(* table, and reduces without a lookahead in a state whose only action is  *)
(* one reduction.  exit() inside t_error and p_error ends the parse; the   *)
(* Program class keeps what the reductions before it stored.               *)
(***************************************************************************)
EXTENDS Integers, Sequences, FiniteSets, TLC

\* ------------------------------------------------------------------------
\* Bounds of the model
\* ------------------------------------------------------------------------
MaxWork == 2        \* what the caller does in one process: one unit for each clause
                    \* (or raw piece) it hands to parseProgram, for a parseProgram
                    \* call on empty text, and for a Program.next_var() call
MaxOperands == 3    \* operands of one arithmetic argument

\* ------------------------------------------------------------------------
\* Characters
\* ------------------------------------------------------------------------
Lower == {"a", "b", "c", "d", "e", "f", "g", "h", "i", "j", "k", "l", "m",
          "n", "o", "p", "q", "r", "s", "t", "u", "v", "w", "x", "y", "z"}
Upper == {"A", "B", "C", "D", "E", "F", "G", "H", "I", "J", "K", "L", "M",
          "N", "O", "P", "Q", "R", "S", "T", "U", "V", "W", "X", "Y", "Z"}
Digit == {"0", "1", "2", "3", "4", "5", "6", "7", "8", "9"}
Word == Lower \cup Upper \cup Digit \cup {"_"}

DigitValue(c) ==
    CASE c = "0" -> 0 [] c = "1" -> 1 [] c = "2" -> 2 [] c = "3" -> 3
      [] c = "4" -> 4 [] c = "5" -> 5 [] c = "6" -> 6 [] c = "7" -> 7
      [] c = "8" -> 8 [] c = "9" -> 9

\* str.isdigit(): non-empty and every character a digit
isdigit(s) == Len(s) > 0 /\ \A i \in 1..Len(s) : s[i] \in Digit

\* int(s) for a string of decimal digits
RECURSIVE int(_)
int(s) ==
    IF Len(s) = 0 THEN 0
    ELSE 10 * int(SubSeq(s, 1, Len(s) - 1)) + DigitValue(s[Len(s)])

\* ------------------------------------------------------------------------
\* Lexer: regular expressions of the token rules.  A pattern is a sequence
\* of atoms, each a character set taken once, or repeated (* or +).
\* ------------------------------------------------------------------------
One(S) == [set |-> S, rep |-> "one"]
Star(S) == [set |-> S, rep |-> "star"]
Plus(S) == [set |-> S, rep |-> "plus"]

tokens == {"LPAREN", "RPAREN", "NOT", "VAR", "NUMBER", "PERIOD", "ENTAILED",
           "IDENT", "COMMA", "PLUS", "MINUS", "TIMES", "MOD", "QUESTION"}

t_LPAREN == <<One({"("})>>
t_RPAREN == <<One({")"})>>
t_PERIOD == <<One({"."})>>
t_COMMA == <<One({","})>>
t_QUESTION == <<One({"?"})>>
t_PLUS == <<One({"+"})>>
t_MINUS == <<One({"-"})>>
t_TIMES == <<One({"*"})>>
t_MOD == <<One({"%"})>>
t_NOT == <<One({"n"}), One({"o"}), One({"t"})>>
t_ENTAILED == <<One({":"}), One({"-"})>>
t_VAR == <<One(Upper), Star(Word)>>
t_NUMBER == <<Plus(Digit)>>
t_ignore == {" ", "\t"}

\* the regular expressions in the docstrings of t_newline and t_IDENT
r_newline == <<Plus({"\n"})>>
r_IDENT == <<One(Lower), Star(Word)>>

\* Variant of t_newline that counts a run of newlines as one line
t_newline_one(line, value) == line + 1

\* t_newline: lexer.lineno += len(t.value); returns no token
t_newline(line, value) == line + Len(value)

not_kw == <<"n", "o", "t">>

\* Variant of t_IDENT that takes every identifier beginning with "not" for the
\* keyword
t_IDENT_prefix(value) ==
    IF Len(value) >= 3 /\ SubSeq(value, 1, 3) = not_kw THEN "NOT" ELSE "IDENT"

\* t_IDENT: the identifier "not" becomes a NOT token
t_IDENT(value) == IF value = not_kw THEN "NOT" ELSE "IDENT"

\* The master regular expression lex.lex() builds: the function rules in
\* order of definition, then the string rules by decreasing length of their
\* regular expression; the first alternative that matches wins.
lexre == << [name |-> "newline", re |-> r_newline],
            [name |-> "IDENT", re |-> r_IDENT],
            [name |-> "VAR", re |-> t_VAR],
            [name |-> "NOT", re |-> t_NOT],
            [name |-> "NUMBER", re |-> t_NUMBER],
            [name |-> "ENTAILED", re |-> t_ENTAILED],
            [name |-> "LPAREN", re |-> t_LPAREN],
            [name |-> "RPAREN", re |-> t_RPAREN],
            [name |-> "PERIOD", re |-> t_PERIOD],
            [name |-> "QUESTION", re |-> t_QUESTION],
            [name |-> "PLUS", re |-> t_PLUS],
            [name |-> "TIMES", re |-> t_TIMES],
            [name |-> "COMMA", re |-> t_COMMA],
            [name |-> "MINUS", re |-> t_MINUS],
            [name |-> "MOD", re |-> t_MOD] >>

\* length of the maximal run of characters of S in text from pos
RECURSIVE RunLen(_, _, _)
RunLen(text, pos, S) ==
    IF pos <= Len(text) /\ text[pos] \in S
    THEN 1 + RunLen(text, pos + 1, S)
    ELSE 0

\* re.match of the atoms i.. of a pattern at pos: the length matched, or -1
RECURSIVE re_match(_, _, _, _)
re_match(re, i, text, pos) ==
    IF i > Len(re) THEN 0
    ELSE LET n == RunLen(text, pos, re[i].set)
             take == IF re[i].rep = "one" THEN 1 ELSE n
             ok == IF re[i].rep = "star" THEN TRUE ELSE n >= 1
             rest == re_match(re, i + 1, text, pos + take)
         IN  IF ok /\ rest >= 0 THEN take + rest ELSE -1

\* index of the first rule of lexre that matches at pos, 0 when none does
RECURSIVE FirstMatch(_, _, _)
FirstMatch(i, text, pos) ==
    IF i > Len(lexre) THEN 0
    ELSE IF re_match(lexre[i].re, 1, text, pos) > 0 THEN i
    ELSE FirstMatch(i + 1, text, pos)

\* Lexer.token(): the next token from lexpos on, skipping ignored characters
\* and the rules that return nothing.  kind is "tok", "eof" (None) or
\* "error" (no rule matches: t_error is called with the rest of the input).
RECURSIVE token(_, _, _)
token(data, pos, line) ==
    IF pos > Len(data)
    THEN [kind |-> "eof", type |-> "$end", value |-> <<>>, lineno |-> line,
          lexpos |-> pos]
    ELSE IF data[pos] \in t_ignore
    THEN token(data, pos + 1, line)
    ELSE LET i == FirstMatch(1, data, pos)
             n == re_match(lexre[i].re, 1, data, pos)
             value == SubSeq(data, pos, pos + n - 1)
         IN  IF i = 0
             THEN [kind |-> "error", type |-> "error",
                   value |-> SubSeq(data, pos, Len(data)),
                   lineno |-> line, lexpos |-> pos]
             ELSE IF lexre[i].name = "newline"
             THEN token(data, pos + n, t_newline(line, value))
             ELSE [kind |-> "tok",
                   type |-> IF lexre[i].name = "IDENT" THEN t_IDENT(value)
                            ELSE lexre[i].name,
                   value |-> value, lineno |-> line, lexpos |-> pos + n]

\* ------------------------------------------------------------------------
\* Grammar: the productions of the p_ functions' docstrings, numbered in
\* order of appearance (production 0 is yacc's S' -> program).
\* ------------------------------------------------------------------------
Prod(name, rhs, func) == [name |-> name, rhs |-> rhs, func |-> func]

Productions == <<
    Prod("program", <<"program", "rule">>, "p_program"),                         \* 1
    Prod("program", <<"program", "fact">>, "p_program"),                         \* 2
    Prod("program", <<"program", "query">>, "p_program"),                        \* 3
    Prod("program", <<"program", "declaration">>, "p_program"),                  \* 4
    Prod("program", <<>>, "p_program"),                                          \* 5
    Prod("declaration", <<"IDENT", "NUMBER", "PERIOD">>, "p_declaration"),       \* 6
    Prod("fact", <<"IDENT", "LPAREN", "params", "RPAREN", "PERIOD">>, "p_fact"), \* 7
    Prod("fact", <<"NOT", "IDENT", "LPAREN", "params", "RPAREN", "PERIOD">>,
         "p_fact"),                                                              \* 8
    Prod("query", <<"QUESTION", "IDENT", "LPAREN", "params", "RPAREN", "PERIOD">>,
         "p_query"),                                                             \* 9
    Prod("params", <<"var_expr">>, "p_params"),                                  \* 10
    Prod("params", <<"params", "COMMA", "var_expr">>, "p_params"),               \* 11
    Prod("var_expr", <<"VAR">>, "p_var_expr"),                                   \* 12
    Prod("var_expr", <<"NUMBER">>, "p_var_expr"),                                \* 13
    Prod("var_expr", <<"var_expr", "PLUS", "var_expr">>, "p_var_expr"),          \* 14
    Prod("var_expr", <<"var_expr", "MINUS", "var_expr">>, "p_var_expr"),         \* 15
    Prod("var_expr", <<"var_expr", "MOD", "var_expr">>, "p_var_expr"),           \* 16
    Prod("var_expr", <<"var_expr", "TIMES", "var_expr">>, "p_var_expr"),         \* 17
    Prod("predicate", <<"IDENT", "LPAREN", "params", "RPAREN">>, "p_predicate"), \* 18
    Prod("predicate", <<"NOT", "IDENT", "LPAREN", "params", "RPAREN">>,
         "p_predicate"),                                                         \* 19
    Prod("antecedents", <<"predicate">>, "p_antecedents"),                       \* 20
    Prod("antecedents", <<"predicate", "COMMA", "antecedents">>,
         "p_antecedents"),                                                       \* 21
    Prod("rule", <<"predicate", "ENTAILED", "antecedents", "PERIOD">>, "p_rule") \* 22
>>

\* Variant of precedence with the usual two tiers: * and % bind tighter
precedence_tiers == << [assoc |-> "left", terms |-> {"PLUS", "MINUS"}],
                       [assoc |-> "left", terms |-> {"TIMES", "MOD"}] >>

\* precedence = (('left', 'PLUS', 'MINUS', 'MOD', 'TIMES'),): one entry per
\* tier, lowest first
precedence == << [assoc |-> "left", terms |-> {"PLUS", "MINUS", "MOD", "TIMES"}] >>

\* precedence of a terminal: its tier (1 for the first entry), ('right', 0)
\* when the table does not name it
TermPrec(prec, term) ==
    IF \E i \in 1..Len(prec) : term \in prec[i].terms
    THEN LET i == CHOOSE j \in 1..Len(prec) : term \in prec[j].terms
         IN  [assoc |-> prec[i].assoc, level |-> i]
    ELSE [assoc |-> "right", level |-> 0]

\* precedence of a production: that of its rightmost terminal
ProdPrec(prec, n) ==
    LET rhs == Productions[n].rhs
        ts == {i \in 1..Len(rhs) : rhs[i] \in tokens}
    IN  IF ts = {} THEN [assoc |-> "right", level |-> 0]
        ELSE TermPrec(prec, rhs[CHOOSE i \in ts : \A j \in ts : j <= i])

\* terminal transitions of the LR automaton: state -> (token type -> state)
lr_shift == <<
    \* state 0: S' -> . program
    \*           program -> . 
    <<>>,
    \* state 1: S' -> program . 
    \*           program -> program . rule
    \*           program -> program . fact
    \*           program -> program . query
    \*           program -> program . declaration
    ("IDENT" :> 6 @@ "NOT" :> 7 @@ "QUESTION" :> 8),
    \* state 2: program -> program rule . 
    <<>>,
    \* state 3: program -> program fact . 
    <<>>,
    \* state 4: program -> program query . 
    <<>>,
    \* state 5: program -> program declaration . 
    <<>>,
    \* state 6: declaration -> IDENT . NUMBER PERIOD
    \*           fact -> IDENT . LPAREN params RPAREN PERIOD
    \*           predicate -> IDENT . LPAREN params RPAREN
    ("NUMBER" :> 10 @@ "LPAREN" :> 11),
    \* state 7: fact -> NOT . IDENT LPAREN params RPAREN PERIOD
    \*           predicate -> NOT . IDENT LPAREN params RPAREN
    ("IDENT" :> 12),
    \* state 8: query -> QUESTION . IDENT LPAREN params RPAREN PERIOD
    ("IDENT" :> 13),
    \* state 9: rule -> predicate . ENTAILED antecedents PERIOD
    ("ENTAILED" :> 14),
    \* state 10: declaration -> IDENT NUMBER . PERIOD
    ("PERIOD" :> 15),
    \* state 11: fact -> IDENT LPAREN . params RPAREN PERIOD
    \*            predicate -> IDENT LPAREN . params RPAREN
    ("VAR" :> 18 @@ "NUMBER" :> 19),
    \* state 12: fact -> NOT IDENT . LPAREN params RPAREN PERIOD
    \*            predicate -> NOT IDENT . LPAREN params RPAREN
    ("LPAREN" :> 20),
    \* state 13: query -> QUESTION IDENT . LPAREN params RPAREN PERIOD
    ("LPAREN" :> 21),
    \* state 14: predicate -> . IDENT LPAREN params RPAREN
    \*            rule -> predicate ENTAILED . antecedents PERIOD
    ("IDENT" :> 22 @@ "NOT" :> 23),
    \* state 15: declaration -> IDENT NUMBER PERIOD . 
    <<>>,
    \* state 16: fact -> IDENT LPAREN params . RPAREN PERIOD
    \*            params -> params . COMMA var_expr
    \*            predicate -> IDENT LPAREN params . RPAREN
    ("RPAREN" :> 26 @@ "COMMA" :> 27),
    \* state 17: params -> var_expr . 
    \*            var_expr -> var_expr . PLUS var_expr
    \*            var_expr -> var_expr . MINUS var_expr
    \*            var_expr -> var_expr . MOD var_expr
    \*            var_expr -> var_expr . TIMES var_expr
    ("PLUS" :> 28 @@ "MINUS" :> 29 @@ "MOD" :> 30 @@ "TIMES" :> 31),
    \* state 18: var_expr -> VAR . 
    <<>>,
    \* state 19: var_expr -> NUMBER . 
    <<>>,
    \* state 20: fact -> NOT IDENT LPAREN . params RPAREN PERIOD
    \*            predicate -> NOT IDENT LPAREN . params RPAREN
    ("VAR" :> 18 @@ "NUMBER" :> 19),
    \* state 21: query -> QUESTION IDENT LPAREN . params RPAREN PERIOD
    ("VAR" :> 18 @@ "NUMBER" :> 19),
    \* state 22: predicate -> IDENT . LPAREN params RPAREN
    ("LPAREN" :> 34),
    \* state 23: predicate -> NOT . IDENT LPAREN params RPAREN
    ("IDENT" :> 35),
    \* state 24: antecedents -> predicate . 
    \*            antecedents -> predicate . COMMA antecedents
    ("COMMA" :> 36),
    \* state 25: rule -> predicate ENTAILED antecedents . PERIOD
    ("PERIOD" :> 37),
    \* state 26: fact -> IDENT LPAREN params RPAREN . PERIOD
    \*            predicate -> IDENT LPAREN params RPAREN . 
    ("PERIOD" :> 38),
    \* state 27: params -> params COMMA . var_expr
    ("VAR" :> 18 @@ "NUMBER" :> 19),
    \* state 28: var_expr -> . VAR
    \*            var_expr -> var_expr PLUS . var_expr
    ("VAR" :> 18 @@ "NUMBER" :> 19),
    \* state 29: var_expr -> . VAR
    \*            var_expr -> var_expr MINUS . var_expr
    ("VAR" :> 18 @@ "NUMBER" :> 19),
    \* state 30: var_expr -> . VAR
    \*            var_expr -> var_expr MOD . var_expr
    ("VAR" :> 18 @@ "NUMBER" :> 19),
    \* state 31: var_expr -> . VAR
    \*            var_expr -> var_expr TIMES . var_expr
    ("VAR" :> 18 @@ "NUMBER" :> 19),
    \* state 32: fact -> NOT IDENT LPAREN params . RPAREN PERIOD
    \*            params -> params . COMMA var_expr
    \*            predicate -> NOT IDENT LPAREN params . RPAREN
    ("RPAREN" :> 44 @@ "COMMA" :> 27),
    \* state 33: query -> QUESTION IDENT LPAREN params . RPAREN PERIOD
    \*            params -> params . COMMA var_expr
    ("RPAREN" :> 45 @@ "COMMA" :> 27),
    \* state 34: params -> . var_expr
    \*            predicate -> IDENT LPAREN . params RPAREN
    ("VAR" :> 18 @@ "NUMBER" :> 19),
    \* state 35: predicate -> NOT IDENT . LPAREN params RPAREN
    ("LPAREN" :> 47),
    \* state 36: predicate -> . IDENT LPAREN params RPAREN
    \*            antecedents -> predicate COMMA . antecedents
    ("IDENT" :> 22 @@ "NOT" :> 23),
    \* state 37: rule -> predicate ENTAILED antecedents PERIOD . 
    <<>>,
    \* state 38: fact -> IDENT LPAREN params RPAREN PERIOD . 
    <<>>,
    \* state 39: params -> params COMMA var_expr . 
    \*            var_expr -> var_expr . PLUS var_expr
    \*            var_expr -> var_expr . MINUS var_expr
    \*            var_expr -> var_expr . MOD var_expr
    \*            var_expr -> var_expr . TIMES var_expr
    ("PLUS" :> 28 @@ "MINUS" :> 29 @@ "MOD" :> 30 @@ "TIMES" :> 31),
    \* state 40: var_expr -> var_expr . PLUS var_expr
    \*            var_expr -> var_expr PLUS var_expr . 
    \*            var_expr -> var_expr . MINUS var_expr
    \*            var_expr -> var_expr . MOD var_expr
    \*            var_expr -> var_expr . TIMES var_expr
    ("PLUS" :> 28 @@ "MINUS" :> 29 @@ "MOD" :> 30 @@ "TIMES" :> 31),
    \* state 41: var_expr -> var_expr . PLUS var_expr
    \*            var_expr -> var_expr . MINUS var_expr
    \*            var_expr -> var_expr MINUS var_expr . 
    \*            var_expr -> var_expr . MOD var_expr
    \*            var_expr -> var_expr . TIMES var_expr
    ("PLUS" :> 28 @@ "MINUS" :> 29 @@ "MOD" :> 30 @@ "TIMES" :> 31),
    \* state 42: var_expr -> var_expr . PLUS var_expr
    \*            var_expr -> var_expr . MINUS var_expr
    \*            var_expr -> var_expr . MOD var_expr
    \*            var_expr -> var_expr MOD var_expr . 
    \*            var_expr -> var_expr . TIMES var_expr
    ("PLUS" :> 28 @@ "MINUS" :> 29 @@ "MOD" :> 30 @@ "TIMES" :> 31),
    \* state 43: var_expr -> var_expr . PLUS var_expr
    \*            var_expr -> var_expr . MINUS var_expr
    \*            var_expr -> var_expr . MOD var_expr
    \*            var_expr -> var_expr . TIMES var_expr
    \*            var_expr -> var_expr TIMES var_expr . 
    ("PLUS" :> 28 @@ "MINUS" :> 29 @@ "MOD" :> 30 @@ "TIMES" :> 31),
    \* state 44: fact -> NOT IDENT LPAREN params RPAREN . PERIOD
    \*            predicate -> NOT IDENT LPAREN params RPAREN . 
    ("PERIOD" :> 49),
    \* state 45: query -> QUESTION IDENT LPAREN params RPAREN . PERIOD
    ("PERIOD" :> 50),
    \* state 46: params -> params . COMMA var_expr
    \*            predicate -> IDENT LPAREN params . RPAREN
    ("COMMA" :> 27 @@ "RPAREN" :> 51),
    \* state 47: params -> . var_expr
    \*            predicate -> NOT IDENT LPAREN . params RPAREN
    ("VAR" :> 18 @@ "NUMBER" :> 19),
    \* state 48: antecedents -> predicate COMMA antecedents . 
    <<>>,
    \* state 49: fact -> NOT IDENT LPAREN params RPAREN PERIOD . 
    <<>>,
    \* state 50: query -> QUESTION IDENT LPAREN params RPAREN PERIOD . 
    <<>>,
    \* state 51: predicate -> IDENT LPAREN params RPAREN . 
    <<>>,
    \* state 52: params -> params . COMMA var_expr
    \*            predicate -> NOT IDENT LPAREN params . RPAREN
    ("COMMA" :> 27 @@ "RPAREN" :> 53),
    \* state 53: predicate -> NOT IDENT LPAREN params RPAREN . 
    <<>>
>>

\* complete items with their LALR(1) lookaheads: state -> (token type -> production)
lr_reduce == <<
    \* state 0: S' -> . program
    \*           program -> . 
    ("$end" :> 5 @@ "IDENT" :> 5 @@ "NOT" :> 5 @@ "QUESTION" :> 5),
    \* state 1: S' -> program . 
    \*           program -> program . rule
    \*           program -> program . fact
    \*           program -> program . query
    \*           program -> program . declaration
    ("$end" :> 0),
    \* state 2: program -> program rule . 
    ("$end" :> 1 @@ "IDENT" :> 1 @@ "NOT" :> 1 @@ "QUESTION" :> 1),
    \* state 3: program -> program fact . 
    ("$end" :> 2 @@ "IDENT" :> 2 @@ "NOT" :> 2 @@ "QUESTION" :> 2),
    \* state 4: program -> program query . 
    ("$end" :> 3 @@ "IDENT" :> 3 @@ "NOT" :> 3 @@ "QUESTION" :> 3),
    \* state 5: program -> program declaration . 
    ("$end" :> 4 @@ "IDENT" :> 4 @@ "NOT" :> 4 @@ "QUESTION" :> 4),
    \* state 6: declaration -> IDENT . NUMBER PERIOD
    \*           fact -> IDENT . LPAREN params RPAREN PERIOD
    \*           predicate -> IDENT . LPAREN params RPAREN
    <<>>,
    \* state 7: fact -> NOT . IDENT LPAREN params RPAREN PERIOD
    \*           predicate -> NOT . IDENT LPAREN params RPAREN
    <<>>,
    \* state 8: query -> QUESTION . IDENT LPAREN params RPAREN PERIOD
    <<>>,
    \* state 9: rule -> predicate . ENTAILED antecedents PERIOD
    <<>>,
    \* state 10: declaration -> IDENT NUMBER . PERIOD
    <<>>,
    \* state 11: fact -> IDENT LPAREN . params RPAREN PERIOD
    \*            predicate -> IDENT LPAREN . params RPAREN
    <<>>,
    \* state 12: fact -> NOT IDENT . LPAREN params RPAREN PERIOD
    \*            predicate -> NOT IDENT . LPAREN params RPAREN
    <<>>,
    \* state 13: query -> QUESTION IDENT . LPAREN params RPAREN PERIOD
    <<>>,
    \* state 14: predicate -> . IDENT LPAREN params RPAREN
    \*            rule -> predicate ENTAILED . antecedents PERIOD
    <<>>,
    \* state 15: declaration -> IDENT NUMBER PERIOD . 
    ("$end" :> 6 @@ "IDENT" :> 6 @@ "NOT" :> 6 @@ "QUESTION" :> 6),
    \* state 16: fact -> IDENT LPAREN params . RPAREN PERIOD
    \*            params -> params . COMMA var_expr
    \*            predicate -> IDENT LPAREN params . RPAREN
    <<>>,
    \* state 17: params -> var_expr . 
    \*            var_expr -> var_expr . PLUS var_expr
    \*            var_expr -> var_expr . MINUS var_expr
    \*            var_expr -> var_expr . MOD var_expr
    \*            var_expr -> var_expr . TIMES var_expr
    ("COMMA" :> 10 @@ "RPAREN" :> 10),
    \* state 18: var_expr -> VAR . 
    ("COMMA" :> 12 @@ "MINUS" :> 12 @@ "MOD" :> 12 @@ "PLUS" :> 12 @@ "RPAREN" :> 12 @@ "TIMES" :> 12),
    \* state 19: var_expr -> NUMBER . 
    ("COMMA" :> 13 @@ "MINUS" :> 13 @@ "MOD" :> 13 @@ "PLUS" :> 13 @@ "RPAREN" :> 13 @@ "TIMES" :> 13),
    \* state 20: fact -> NOT IDENT LPAREN . params RPAREN PERIOD
    \*            predicate -> NOT IDENT LPAREN . params RPAREN
    <<>>,
    \* state 21: query -> QUESTION IDENT LPAREN . params RPAREN PERIOD
    <<>>,
    \* state 22: predicate -> IDENT . LPAREN params RPAREN
    <<>>,
    \* state 23: predicate -> NOT . IDENT LPAREN params RPAREN
    <<>>,
    \* state 24: antecedents -> predicate . 
    \*            antecedents -> predicate . COMMA antecedents
    ("PERIOD" :> 20),
    \* state 25: rule -> predicate ENTAILED antecedents . PERIOD
    <<>>,
    \* state 26: fact -> IDENT LPAREN params RPAREN . PERIOD
    \*            predicate -> IDENT LPAREN params RPAREN . 
    ("ENTAILED" :> 18),
    \* state 27: params -> params COMMA . var_expr
    <<>>,
    \* state 28: var_expr -> . VAR
    \*            var_expr -> var_expr PLUS . var_expr
    <<>>,
    \* state 29: var_expr -> . VAR
    \*            var_expr -> var_expr MINUS . var_expr
    <<>>,
    \* state 30: var_expr -> . VAR
    \*            var_expr -> var_expr MOD . var_expr
    <<>>,
    \* state 31: var_expr -> . VAR
    \*            var_expr -> var_expr TIMES . var_expr
    <<>>,
    \* state 32: fact -> NOT IDENT LPAREN params . RPAREN PERIOD
    \*            params -> params . COMMA var_expr
    \*            predicate -> NOT IDENT LPAREN params . RPAREN
    <<>>,
    \* state 33: query -> QUESTION IDENT LPAREN params . RPAREN PERIOD
    \*            params -> params . COMMA var_expr
    <<>>,
    \* state 34: params -> . var_expr
    \*            predicate -> IDENT LPAREN . params RPAREN
    <<>>,
    \* state 35: predicate -> NOT IDENT . LPAREN params RPAREN
    <<>>,
    \* state 36: predicate -> . IDENT LPAREN params RPAREN
    \*            antecedents -> predicate COMMA . antecedents
    <<>>,
    \* state 37: rule -> predicate ENTAILED antecedents PERIOD . 
    ("$end" :> 22 @@ "IDENT" :> 22 @@ "NOT" :> 22 @@ "QUESTION" :> 22),
    \* state 38: fact -> IDENT LPAREN params RPAREN PERIOD . 
    ("$end" :> 7 @@ "IDENT" :> 7 @@ "NOT" :> 7 @@ "QUESTION" :> 7),
    \* state 39: params -> params COMMA var_expr . 
    \*            var_expr -> var_expr . PLUS var_expr
    \*            var_expr -> var_expr . MINUS var_expr
    \*            var_expr -> var_expr . MOD var_expr
    \*            var_expr -> var_expr . TIMES var_expr
    ("COMMA" :> 11 @@ "RPAREN" :> 11),
    \* state 40: var_expr -> var_expr . PLUS var_expr
    \*            var_expr -> var_expr PLUS var_expr . 
    \*            var_expr -> var_expr . MINUS var_expr
    \*            var_expr -> var_expr . MOD var_expr
    \*            var_expr -> var_expr . TIMES var_expr
    ("COMMA" :> 14 @@ "MINUS" :> 14 @@ "MOD" :> 14 @@ "PLUS" :> 14 @@ "RPAREN" :> 14 @@ "TIMES" :> 14),
    \* state 41: var_expr -> var_expr . PLUS var_expr
    \*            var_expr -> var_expr . MINUS var_expr
    \*            var_expr -> var_expr MINUS var_expr . 
    \*            var_expr -> var_expr . MOD var_expr
    \*            var_expr -> var_expr . TIMES var_expr
    ("COMMA" :> 15 @@ "MINUS" :> 15 @@ "MOD" :> 15 @@ "PLUS" :> 15 @@ "RPAREN" :> 15 @@ "TIMES" :> 15),
    \* state 42: var_expr -> var_expr . PLUS var_expr
    \*            var_expr -> var_expr . MINUS var_expr
    \*            var_expr -> var_expr . MOD var_expr
    \*            var_expr -> var_expr MOD var_expr . 
    \*            var_expr -> var_expr . TIMES var_expr
    ("COMMA" :> 16 @@ "MINUS" :> 16 @@ "MOD" :> 16 @@ "PLUS" :> 16 @@ "RPAREN" :> 16 @@ "TIMES" :> 16),
    \* state 43: var_expr -> var_expr . PLUS var_expr
    \*            var_expr -> var_expr . MINUS var_expr
    \*            var_expr -> var_expr . MOD var_expr
    \*            var_expr -> var_expr . TIMES var_expr
    \*            var_expr -> var_expr TIMES var_expr . 
    ("COMMA" :> 17 @@ "MINUS" :> 17 @@ "MOD" :> 17 @@ "PLUS" :> 17 @@ "RPAREN" :> 17 @@ "TIMES" :> 17),
    \* state 44: fact -> NOT IDENT LPAREN params RPAREN . PERIOD
    \*            predicate -> NOT IDENT LPAREN params RPAREN . 
    ("ENTAILED" :> 19),
    \* state 45: query -> QUESTION IDENT LPAREN params RPAREN . PERIOD
    <<>>,
    \* state 46: params -> params . COMMA var_expr
    \*            predicate -> IDENT LPAREN params . RPAREN
    <<>>,
    \* state 47: params -> . var_expr
    \*            predicate -> NOT IDENT LPAREN . params RPAREN
    <<>>,
    \* state 48: antecedents -> predicate COMMA antecedents . 
    ("PERIOD" :> 21),
    \* state 49: fact -> NOT IDENT LPAREN params RPAREN PERIOD . 
    ("$end" :> 8 @@ "IDENT" :> 8 @@ "NOT" :> 8 @@ "QUESTION" :> 8),
    \* state 50: query -> QUESTION IDENT LPAREN params RPAREN PERIOD . 
    ("$end" :> 9 @@ "IDENT" :> 9 @@ "NOT" :> 9 @@ "QUESTION" :> 9),
    \* state 51: predicate -> IDENT LPAREN params RPAREN . 
    ("COMMA" :> 18 @@ "PERIOD" :> 18),
    \* state 52: params -> params . COMMA var_expr
    \*            predicate -> NOT IDENT LPAREN params . RPAREN
    <<>>,
    \* state 53: predicate -> NOT IDENT LPAREN params RPAREN . 
    ("COMMA" :> 19 @@ "PERIOD" :> 19)
>>

\* nonterminal transitions: state -> (nonterminal -> state)
lr_goto == <<
    \* state 0: S' -> . program
    \*           program -> . 
    ("program" :> 1),
    \* state 1: S' -> program . 
    \*           program -> program . rule
    \*           program -> program . fact
    \*           program -> program . query
    \*           program -> program . declaration
    ("rule" :> 2 @@ "fact" :> 3 @@ "query" :> 4 @@ "declaration" :> 5 @@ "predicate" :> 9),
    \* state 2: program -> program rule . 
    <<>>,
    \* state 3: program -> program fact . 
    <<>>,
    \* state 4: program -> program query . 
    <<>>,
    \* state 5: program -> program declaration . 
    <<>>,
    \* state 6: declaration -> IDENT . NUMBER PERIOD
    \*           fact -> IDENT . LPAREN params RPAREN PERIOD
    \*           predicate -> IDENT . LPAREN params RPAREN
    <<>>,
    \* state 7: fact -> NOT . IDENT LPAREN params RPAREN PERIOD
    \*           predicate -> NOT . IDENT LPAREN params RPAREN
    <<>>,
    \* state 8: query -> QUESTION . IDENT LPAREN params RPAREN PERIOD
    <<>>,
    \* state 9: rule -> predicate . ENTAILED antecedents PERIOD
    <<>>,
    \* state 10: declaration -> IDENT NUMBER . PERIOD
    <<>>,
    \* state 11: fact -> IDENT LPAREN . params RPAREN PERIOD
    \*            predicate -> IDENT LPAREN . params RPAREN
    ("params" :> 16 @@ "var_expr" :> 17),
    \* state 12: fact -> NOT IDENT . LPAREN params RPAREN PERIOD
    \*            predicate -> NOT IDENT . LPAREN params RPAREN
    <<>>,
    \* state 13: query -> QUESTION IDENT . LPAREN params RPAREN PERIOD
    <<>>,
    \* state 14: predicate -> . IDENT LPAREN params RPAREN
    \*            rule -> predicate ENTAILED . antecedents PERIOD
    ("predicate" :> 24 @@ "antecedents" :> 25),
    \* state 15: declaration -> IDENT NUMBER PERIOD . 
    <<>>,
    \* state 16: fact -> IDENT LPAREN params . RPAREN PERIOD
    \*            params -> params . COMMA var_expr
    \*            predicate -> IDENT LPAREN params . RPAREN
    <<>>,
    \* state 17: params -> var_expr . 
    \*            var_expr -> var_expr . PLUS var_expr
    \*            var_expr -> var_expr . MINUS var_expr
    \*            var_expr -> var_expr . MOD var_expr
    \*            var_expr -> var_expr . TIMES var_expr
    <<>>,
    \* state 18: var_expr -> VAR . 
    <<>>,
    \* state 19: var_expr -> NUMBER . 
    <<>>,
    \* state 20: fact -> NOT IDENT LPAREN . params RPAREN PERIOD
    \*            predicate -> NOT IDENT LPAREN . params RPAREN
    ("params" :> 32 @@ "var_expr" :> 17),
    \* state 21: query -> QUESTION IDENT LPAREN . params RPAREN PERIOD
    ("params" :> 33 @@ "var_expr" :> 17),
    \* state 22: predicate -> IDENT . LPAREN params RPAREN
    <<>>,
    \* state 23: predicate -> NOT . IDENT LPAREN params RPAREN
    <<>>,
    \* state 24: antecedents -> predicate . 
    \*            antecedents -> predicate . COMMA antecedents
    <<>>,
    \* state 25: rule -> predicate ENTAILED antecedents . PERIOD
    <<>>,
    \* state 26: fact -> IDENT LPAREN params RPAREN . PERIOD
    \*            predicate -> IDENT LPAREN params RPAREN . 
    <<>>,
    \* state 27: params -> params COMMA . var_expr
    ("var_expr" :> 39),
    \* state 28: var_expr -> . VAR
    \*            var_expr -> var_expr PLUS . var_expr
    ("var_expr" :> 40),
    \* state 29: var_expr -> . VAR
    \*            var_expr -> var_expr MINUS . var_expr
    ("var_expr" :> 41),
    \* state 30: var_expr -> . VAR
    \*            var_expr -> var_expr MOD . var_expr
    ("var_expr" :> 42),
    \* state 31: var_expr -> . VAR
    \*            var_expr -> var_expr TIMES . var_expr
    ("var_expr" :> 43),
    \* state 32: fact -> NOT IDENT LPAREN params . RPAREN PERIOD
    \*            params -> params . COMMA var_expr
    \*            predicate -> NOT IDENT LPAREN params . RPAREN
    <<>>,
    \* state 33: query -> QUESTION IDENT LPAREN params . RPAREN PERIOD
    \*            params -> params . COMMA var_expr
    <<>>,
    \* state 34: params -> . var_expr
    \*            predicate -> IDENT LPAREN . params RPAREN
    ("var_expr" :> 17 @@ "params" :> 46),
    \* state 35: predicate -> NOT IDENT . LPAREN params RPAREN
    <<>>,
    \* state 36: predicate -> . IDENT LPAREN params RPAREN
    \*            antecedents -> predicate COMMA . antecedents
    ("predicate" :> 24 @@ "antecedents" :> 48),
    \* state 37: rule -> predicate ENTAILED antecedents PERIOD . 
    <<>>,
    \* state 38: fact -> IDENT LPAREN params RPAREN PERIOD . 
    <<>>,
    \* state 39: params -> params COMMA var_expr . 
    \*            var_expr -> var_expr . PLUS var_expr
    \*            var_expr -> var_expr . MINUS var_expr
    \*            var_expr -> var_expr . MOD var_expr
    \*            var_expr -> var_expr . TIMES var_expr
    <<>>,
    \* state 40: var_expr -> var_expr . PLUS var_expr
    \*            var_expr -> var_expr PLUS var_expr . 
    \*            var_expr -> var_expr . MINUS var_expr
    \*            var_expr -> var_expr . MOD var_expr
    \*            var_expr -> var_expr . TIMES var_expr
    <<>>,
    \* state 41: var_expr -> var_expr . PLUS var_expr
    \*            var_expr -> var_expr . MINUS var_expr
    \*            var_expr -> var_expr MINUS var_expr . 
    \*            var_expr -> var_expr . MOD var_expr
    \*            var_expr -> var_expr . TIMES var_expr
    <<>>,
    \* state 42: var_expr -> var_expr . PLUS var_expr
    \*            var_expr -> var_expr . MINUS var_expr
    \*            var_expr -> var_expr . MOD var_expr
    \*            var_expr -> var_expr MOD var_expr . 
    \*            var_expr -> var_expr . TIMES var_expr
    <<>>,
    \* state 43: var_expr -> var_expr . PLUS var_expr
    \*            var_expr -> var_expr . MINUS var_expr
    \*            var_expr -> var_expr . MOD var_expr
    \*            var_expr -> var_expr . TIMES var_expr
    \*            var_expr -> var_expr TIMES var_expr . 
    <<>>,
    \* state 44: fact -> NOT IDENT LPAREN params RPAREN . PERIOD
    \*            predicate -> NOT IDENT LPAREN params RPAREN . 
    <<>>,
    \* state 45: query -> QUESTION IDENT LPAREN params RPAREN . PERIOD
    <<>>,
    \* state 46: params -> params . COMMA var_expr
    \*            predicate -> IDENT LPAREN params . RPAREN
    <<>>,
    \* state 47: params -> . var_expr
    \*            predicate -> NOT IDENT LPAREN . params RPAREN
    ("var_expr" :> 17 @@ "params" :> 52),
    \* state 48: antecedents -> predicate COMMA antecedents . 
    <<>>,
    \* state 49: fact -> NOT IDENT LPAREN params RPAREN PERIOD . 
    <<>>,
    \* state 50: query -> QUESTION IDENT LPAREN params RPAREN PERIOD . 
    <<>>,
    \* state 51: predicate -> IDENT LPAREN params RPAREN . 
    <<>>,
    \* state 52: params -> params . COMMA var_expr
    \*            predicate -> NOT IDENT LPAREN params . RPAREN
    <<>>,
    \* state 53: predicate -> NOT IDENT LPAREN params RPAREN . 
    <<>>
>>

\* ------------------------------------------------------------------------
\* The parse table yacc.yacc() derives from the automaton: a shift/reduce
\* conflict is settled by the precedence table, as Ply's table builder does.
\* ------------------------------------------------------------------------
ActShift(j) == [kind |-> "shift", n |-> j]
ActReduce(n) == [kind |-> "reduce", n |-> n]
ActAccept == [kind |-> "accept", n |-> 0]
ActError == [kind |-> "error", n |-> 0]

lr_action(s, t) ==
    LET sh == lr_shift[s + 1]
        rd == lr_reduce[s + 1]
    IN  IF t \in DOMAIN sh /\ t \in DOMAIN rd
        THEN LET sp == TermPrec(precedence, t)
                 rp == ProdPrec(precedence, rd[t])
             IN  IF sp.level < rp.level \/ (sp.level = rp.level /\ rp.assoc = "left")
                 THEN ActReduce(rd[t])
                 ELSE IF sp.level = rp.level /\ rp.assoc = "nonassoc"
                 THEN ActError
                 ELSE ActShift(sh[t])
        ELSE IF t \in DOMAIN sh THEN ActShift(sh[t])
        ELSE IF t \in DOMAIN rd
        THEN (IF rd[t] = 0 THEN ActAccept ELSE ActReduce(rd[t]))
        ELSE ActError

\* the token types that have an entry in the action table of state s
ActionTerms(s) == DOMAIN lr_shift[s + 1] \cup DOMAIN lr_reduce[s + 1]

\* LRParser.set_defaulted_states: a state whose only action is one reduction
\* reduces without asking for the next token
defaulted(s) ==
    /\ Cardinality(ActionTerms(s)) = 1
    /\ \A t \in ActionTerms(s) : lr_action(s, t).kind = "reduce"

\* ------------------------------------------------------------------------
\* Python values
\* ------------------------------------------------------------------------
PyInt(n) == [k |-> "int", v |-> n]
PyStr(s) == [k |-> "str", v |-> s]
PyTuple(t) == [k |-> "tuple", v |-> t]
None == [k |-> "None", v |-> 0]

\* len(p) of a YaccProduction whose right-hand side values are p[1..n]
len(p) == Len(p) + 1

\* ------------------------------------------------------------------------
\* The reduction functions.  p is the sequence p[1], ..., p[n] of the values
\* of the right-hand side; the result is p[0], or the collection of Program
\* the function changes.
\* ------------------------------------------------------------------------
\* Variant of p_declaration that keeps the arity a name already has
p_declaration_first(p, predicates) ==
    IF p[1] \in DOMAIN predicates THEN predicates
    ELSE [n \in DOMAIN predicates \cup {p[1]} |->
            IF n = p[1] THEN int(p[2]) ELSE predicates[n]]

\* Program.predicates[p[1]] = int(p[2])
p_declaration(p, predicates) ==
    [n \in DOMAIN predicates \cup {p[1]} |->
        IF n = p[1] THEN int(p[2]) ELSE predicates[n]]

p_fact(p, facts) ==
    IF p[1] = not_kw
    THEN Append(facts, <<-1, p[2], p[4]>>)
    ELSE Append(facts, <<1, p[1], p[3]>>)

p_query(p, queries) == Append(queries, <<p[2], p[4]>>)

p_params(p) ==
    IF len(p) > 2
    THEN p[1] \o <<p[3]>>
    ELSE <<p[1]>>

\* Variant of p_var_expr that puts the operator first
p_var_expr_prefix(p) ==
    IF len(p) > 2
    THEN PyTuple(<<PyStr(p[2]), p[1], p[3]>>)
    ELSE IF isdigit(p[1]) THEN PyInt(int(p[1])) ELSE PyStr(p[1])

p_var_expr(p) ==
    IF len(p) > 2
    THEN PyTuple(<<p[1], PyStr(p[2]), p[3]>>)
    ELSE IF isdigit(p[1]) THEN PyInt(int(p[1])) ELSE PyStr(p[1])

p_predicate(p) ==
    IF p[1] = not_kw
    THEN <<-1, p[2], p[4]>>
    ELSE <<1, p[1], p[3]>>

\* ret = p[3][:]; ret.append(p[1])
p_antecedents(p) ==
    IF len(p) < 3
    THEN <<p[1]>>
    ELSE Append(p[3], p[1])

p_rule(p, rules) == Append(rules, <<p[1], p[3]>>)

\* Variant of next_var that returns the counter after the increment
next_var_post(nv) ==
    LET incremented == nv + 1
    IN  [next_variable |-> incremented, ret |-> incremented]

\* Program.next_var(): Program.next_variable += 1; return Program.next_variable - 1
next_var(nv) ==
    LET incremented == nv + 1
    IN  [next_variable |-> incremented, ret |-> incremented - 1]

\* ------------------------------------------------------------------------
\* Source programs.  A program is a sequence of clauses, each given by its
\* syntax: names are texts, numbers are naturals, an argument is a chain
\* operand (operator operand)*, as the grammar has no parentheses inside an
\* argument.  Source renders a program as the text handed to parseProgram.
\* A raw piece is text that is no clause.
\* ------------------------------------------------------------------------
Var(name) == [isnum |-> FALSE, name |-> name, num |-> 0]
Num(n) == [isnum |-> TRUE, name |-> <<>>, num |-> n]
Link(op, arg) == [op |-> op, arg |-> arg]
Chain(first, rest) == [first |-> first, rest |-> rest]
Arg(operand) == Chain(operand, <<>>)
Lit(neg, name, args) == [neg |-> neg, name |-> name, args |-> args]
NoLit == Lit(FALSE, <<>>, <<>>)

Declaration(name, arity) ==
    [kind |-> "declaration", head |-> Lit(FALSE, name, <<>>), body |-> <<>>,
     arity |-> arity, raw |-> <<>>]
Fact(lit) == [kind |-> "fact", head |-> lit, body |-> <<>>, arity |-> 0, raw |-> <<>>]
Query(name, args) ==
    [kind |-> "query", head |-> Lit(FALSE, name, args), body |-> <<>>, arity |-> 0,
     raw |-> <<>>]
Rule(head, body) == [kind |-> "rule", head |-> head, body |-> body, arity |-> 0, raw |-> <<>>]
Raw(text) == [kind |-> "raw", head |-> NoLit, body |-> <<>>, arity |-> 0, raw |-> text]

DigitChar(d) ==
    CASE d = 0 -> "0" [] d = 1 -> "1" [] d = 2 -> "2" [] d = 3 -> "3" [] d = 4 -> "4"
      [] d = 5 -> "5" [] d = 6 -> "6" [] d = 7 -> "7" [] d = 8 -> "8" [] d = 9 -> "9"

\* the decimal numeral of a natural
RECURSIVE Decimal(_)
Decimal(n) ==
    IF n < 10 THEN <<DigitChar(n)>>
    ELSE Append(Decimal(n \div 10), DigitChar(n % 10))

SrcOperand(o) == IF o.isnum THEN Decimal(o.num) ELSE o.name

RECURSIVE SrcLinks(_)
SrcLinks(links) ==
    IF links = <<>> THEN <<>>
    ELSE <<links[1].op>> \o SrcOperand(links[1].arg) \o SrcLinks(Tail(links))

SrcChain(c) == SrcOperand(c.first) \o SrcLinks(c.rest)

RECURSIVE SrcArgs(_)
SrcArgs(args) ==
    IF Len(args) = 1 THEN SrcChain(args[1])
    ELSE SrcChain(args[1]) \o <<",", " ">> \o SrcArgs(Tail(args))

SrcLit(l) ==
    (IF l.neg THEN not_kw \o <<" ">> ELSE <<>>)
        \o l.name \o <<"(">> \o SrcArgs(l.args) \o <<")">>

RECURSIVE SrcBody(_)
SrcBody(lits) ==
    IF Len(lits) = 1 THEN SrcLit(lits[1])
    ELSE SrcLit(lits[1]) \o <<",", "\t">> \o SrcBody(Tail(lits))

SrcClause(c) ==
    CASE c.kind = "declaration" ->
            c.head.name \o <<" ">> \o Decimal(c.arity) \o <<".", "\n", "\n">>
      [] c.kind = "fact" -> SrcLit(c.head) \o <<".", "\n">>
      [] c.kind = "query" -> <<"?">> \o SrcLit(c.head) \o <<".", "\n">>
      [] c.kind = "rule" ->
            SrcLit(c.head) \o <<" ", ":", "-", " ">> \o SrcBody(c.body) \o <<".", "\n">>
      [] c.kind = "raw" -> c.raw

RECURSIVE Source(_)
Source(prog) ==
    IF prog = <<>> THEN <<>>
    ELSE SrcClause(prog[1]) \o Source(Tail(prog))

\* ------------------------------------------------------------------------
\* The inputs of the model
\* ------------------------------------------------------------------------
vX == Var(<<"X">>)
vY == Var(<<"Y">>)
nm_f == <<"f">>
nm_g == <<"g">>
nm_p == <<"p">>
nm_q == <<"q">>
nm_r == <<"r">>
nm_s == <<"s">>
nm_notx == <<"n", "o", "t", "x">>

ClauseCorpus == {
    Declaration(nm_f, 2),                                   \* f 2.
    Declaration(nm_f, 3),                                   \* f 3.
    Declaration(nm_g, 12),                                  \* g 12.
    Fact(Lit(FALSE, nm_f, <<Arg(vX)>>)),                    \* f(X).
    Fact(Lit(TRUE, nm_f, <<Arg(vX)>>)),                     \* not f(X).
    Fact(Lit(FALSE, nm_notx, <<Arg(Num(1))>>)),             \* notx(1).
    Query(nm_f, <<Arg(vX), Arg(Num(7))>>),                  \* ?f(X, 7).
    Rule(Lit(FALSE, nm_p, <<Arg(vX)>>),
         <<Lit(FALSE, nm_q, <<Arg(vX)>>)>>),                \* p(X) :- q(X).
    Rule(Lit(TRUE, nm_p, <<Arg(vX)>>),                      \* not p(X) :- q(X),
         <<Lit(FALSE, nm_q, <<Arg(vX)>>),                   \*     not r(Y), s(3+X).
           Lit(TRUE, nm_r, <<Arg(vY)>>),
           Lit(FALSE, nm_s, <<Chain(Num(3), <<Link("+", vX)>>)>>)>>),
    Raw(<<"#">>),                                           \* an illegal character
    Raw(<<"f", "(", "X">>)                                  \* an unfinished clause
}

Operators == {"+", "-", "*", "%"}
Operands == {vX, Num(12)}

\* the sequences of at most n elements of S
RECURSIVE SeqsUpTo(_, _)
SeqsUpTo(S, n) ==
    IF n = 0 THEN {<<>>}
    ELSE LET shorter == SeqsUpTo(S, n - 1)
         IN  shorter \cup {Append(s, x) : s \in {q \in shorter : Len(q) = n - 1}, x \in S}

\* every argument of at most MaxOperands operands, as the one argument of a fact
Chains ==
    {Chain(a, r) : a \in Operands,
                   r \in SeqsUpTo({Link(op, b) : op \in Operators, b \in Operands},
                                  MaxOperands - 1)}

TermCorpus ==
    {Fact(Lit(FALSE, nm_f, <<c>>)) : c \in Chains}
        \cup {Raw(<<"f", "(", "X", "+", ")", ".">>),        \* f(X+).
              Raw(<<"f", "(", "X", ":", "1", ")", ".">>)}   \* f(X:1).

Corpus(name) == IF name = "clauses" THEN ClauseCorpus ELSE TermCorpus

ClausePrograms == SeqsUpTo(ClauseCorpus, MaxWork)
TermPrograms == SeqsUpTo(TermCorpus, 1)
Programs(name) == IF name = "clauses" THEN ClausePrograms ELSE TermPrograms

\* the units of work of one parseProgram call
Cost(prog) == IF prog = <<>> THEN 1 ELSE Len(prog)

\* ------------------------------------------------------------------------
\* State
\* ------------------------------------------------------------------------
VARIABLES
    predicates,     \* Program.predicates: name -> arity
    facts,          \* Program.facts
    rules,          \* Program.rules
    queries,        \* Program.queries
    next_variable,  \* Program.next_variable
    lexdata,        \* the lexer's input text
    lexpos,         \* the lexer's position in it (from 1)
    lineno,         \* lexer.lineno
    statestack,     \* the parser's state stack
    symstack,       \* the values of the symbols on the parser's stack
    lookahead,      \* the parser's lookahead token
    pc,             \* "idle", or "parsing" inside yacc.parse
    outcome,        \* how the last parseProgram call ended
    report,         \* what the last failed call printed, and its exit status
    corpus,         \* the family of inputs of this run
    budget,         \* units of work the caller may still do
    program,        \* the program of the last parseProgram call
    pre,            \* the store when that call began
    returned        \* the values Program.next_var() has returned, in order

store == <<predicates, facts, rules, queries>>
lexer == <<lexdata, lexpos, lineno>>
parser == <<statestack, symstack, lookahead>>
session == <<corpus, budget, program, pre>>
vars == <<predicates, facts, rules, queries, next_variable, lexdata, lexpos, lineno,
          statestack, symstack, lookahead, pc, outcome, report, corpus, budget,
          program, pre, returned>>

NoToken == [kind |-> "none", type |-> "none", value |-> <<>>, lineno |-> 0, lexpos |-> 0]
NoReport == [kind |-> "none", text |-> <<>>, eof |-> FALSE, line |-> 0, status |-> 0]

Snapshot == [predicates |-> predicates, facts |-> facts, rules |-> rules,
             queries |-> queries, next_variable |-> next_variable]

\* class Program, as the module defines it
InitStore ==
    /\ predicates = [n \in {} |-> 0]
    /\ facts = <<>>
    /\ rules = <<>>
    /\ queries = <<>>
    /\ next_variable = 1

InitRest ==
    /\ lexdata = <<>>
    /\ lexpos = 1
    /\ lineno = 1
    /\ statestack = <<>>
    /\ symstack = <<>>
    /\ lookahead = NoToken
    /\ pc = "idle"
    /\ outcome = "none"
    /\ report = NoReport
    /\ program = <<>>
    /\ pre = Snapshot
    /\ returned = <<>>

Init ==
    /\ InitStore
    /\ InitRest
    /\ \/ corpus = "clauses" /\ budget = MaxWork
       \/ corpus = "terms" /\ budget = 1

\* ------------------------------------------------------------------------
\* parseProgram
\* ------------------------------------------------------------------------
\* Variant of parseProgram that starts every parse from empty collections
parseProgram_clean ==
    /\ pc = "idle"
    /\ \E prog \in Programs(corpus) :
        /\ Cost(prog) <= budget
        /\ program' = prog
        /\ budget' = budget - Cost(prog)
        /\ lexdata' = Source(prog)
    /\ lexpos' = 1
    /\ lineno' = 1
    /\ statestack' = <<0>>
    /\ symstack' = <<>>
    /\ lookahead' = NoToken
    /\ pc' = "parsing"
    /\ outcome' = "none"
    /\ report' = NoReport
    /\ pre' = Snapshot
    /\ facts' = <<>>
    /\ rules' = <<>>
    /\ queries' = <<>>
    /\ UNCHANGED <<predicates, next_variable, corpus, returned>>

\* parseProgram: a new lexer (line 1) on the program text, a new parser in its
\* start state.  The store is not touched.
parseProgram ==
    /\ pc = "idle"
    /\ \E prog \in Programs(corpus) :
        /\ Cost(prog) <= budget
        /\ program' = prog
        /\ budget' = budget - Cost(prog)
        /\ lexdata' = Source(prog)
    /\ lexpos' = 1
    /\ lineno' = 1
    /\ statestack' = <<0>>
    /\ symstack' = <<>>
    /\ lookahead' = NoToken
    /\ pc' = "parsing"
    /\ outcome' = "none"
    /\ report' = NoReport
    /\ pre' = Snapshot
    /\ UNCHANGED <<store, next_variable, corpus, returned>>

\* ------------------------------------------------------------------------
\* One iteration of the loop of yacc.parse
\* ------------------------------------------------------------------------
state == statestack[Len(statestack)]

\* the loop asks the lexer for a token when the state is not defaulted and no
\* lookahead is held
needs_token == ~defaulted(state) /\ lookahead.kind = "none"
la == IF needs_token THEN token(lexdata, lexpos, lineno) ELSE lookahead

action ==
    IF defaulted(state)
    THEN lr_action(state, CHOOSE t \in ActionTerms(state) : TRUE)
    ELSE lr_action(state, la.type)

\* the lexer after the iteration's call of token(), if it made one
LexerAdvance ==
    /\ lexpos' = IF needs_token THEN la.lexpos ELSE lexpos
    /\ lineno' = IF needs_token THEN la.lineno ELSE lineno
    /\ UNCHANGED lexdata

Running == pc = "parsing" /\ (needs_token => la.kind # "error")

Finish(how, rep) ==
    /\ pc' = "idle"
    /\ outcome' = how
    /\ report' = rep
    /\ statestack' = <<>>
    /\ symstack' = <<>>
    /\ lookahead' = NoToken

Shift ==
    /\ Running
    /\ action.kind = "shift"
    /\ statestack' = Append(statestack, action.n)
    /\ symstack' = Append(symstack, la.value)
    /\ lookahead' = NoToken
    /\ LexerAdvance
    /\ UNCHANGED <<store, next_variable, pc, outcome, report, session, returned>>

Reduce ==
    /\ Running
    /\ action.kind = "reduce"
    /\ LET prod == Productions[action.n]
           plen == Len(prod.rhs)
           p == SubSeq(symstack, Len(symstack) - plen + 1, Len(symstack))
           below == SubSeq(statestack, 1, Len(statestack) - plen)
           f == prod.func
           value == CASE f = "p_params" -> p_params(p)
                      [] f = "p_var_expr" -> p_var_expr(p)
                      [] f = "p_predicate" -> p_predicate(p)
                      [] f = "p_antecedents" -> p_antecedents(p)
                      [] OTHER -> None
       IN  /\ statestack' = Append(below, lr_goto[below[Len(below)] + 1][prod.name])
           /\ symstack' = Append(SubSeq(symstack, 1, Len(symstack) - plen), value)
           /\ predicates' = IF f = "p_declaration" THEN p_declaration(p, predicates)
                            ELSE predicates
           /\ facts' = IF f = "p_fact" THEN p_fact(p, facts) ELSE facts
           /\ queries' = IF f = "p_query" THEN p_query(p, queries) ELSE queries
           /\ rules' = IF f = "p_rule" THEN p_rule(p, rules) ELSE rules
    /\ lookahead' = la
    /\ LexerAdvance
    /\ UNCHANGED <<next_variable, pc, outcome, report, session, returned>>

Accept ==
    /\ Running
    /\ action.kind = "accept"
    /\ Finish("accepted", NoReport)
    /\ LexerAdvance
    /\ UNCHANGED <<store, next_variable, session, returned>>

\* p_error: print the token and its line, or "Syntax error at EOF"; exit()
p_error ==
    /\ Running
    /\ action.kind = "error"
    /\ Finish("syntax error",
              [kind |-> "syntax", text |-> la.value, eof |-> la.kind = "eof",
               line |-> la.lineno, status |-> 0])
    /\ LexerAdvance
    /\ UNCHANGED <<store, next_variable, session, returned>>

\* t_error: print t.value[0] and t.lexer.lineno; exit(1)
t_error ==
    /\ pc = "parsing"
    /\ needs_token
    /\ la.kind = "error"
    /\ Finish("lexical error",
              [kind |-> "lexical", text |-> <<la.value[1]>>, eof |-> FALSE,
               line |-> la.lineno, status |-> 1])
    /\ LexerAdvance
    /\ UNCHANGED <<store, next_variable, session, returned>>

\* a caller's Program.next_var(), between parses
NextVar ==
    /\ pc = "idle"
    /\ budget > 0
    /\ budget' = budget - 1
    /\ LET r == next_var(next_variable)
       IN  /\ next_variable' = r.next_variable
           /\ returned' = Append(returned, r.ret)
    /\ UNCHANGED <<store, lexer, parser, pc, outcome, report, corpus, program, pre>>

Next ==
    \/ parseProgram
    \/ Shift
    \/ Reduce
    \/ Accept
    \/ p_error
    \/ t_error
    \/ NextVar

Spec == Init /\ [][Next]_vars

\* ------------------------------------------------------------------------
\* What a source program denotes: the entries its clauses stand for, read
\* off the syntax.
\* ------------------------------------------------------------------------
Leaf(o) == IF o.isnum THEN PyInt(o.num) ELSE PyStr(o.name)
Node(left, op, right) == PyTuple(<<left, PyStr(<<op>>), right>>)

\* operand (op operand)* read from left to right
RECURSIVE LeftFold(_, _)
LeftFold(acc, links) ==
    IF links = <<>> THEN acc
    ELSE LeftFold(Node(acc, links[1].op, Leaf(links[1].arg)), Tail(links))

TermOf(c) == LeftFold(Leaf(c.first), c.rest)
ArgsOf(args) == [i \in 1..Len(args) |-> TermOf(args[i])]
SignOf(l) == IF l.neg THEN -1 ELSE 1
LitOf(l) == <<SignOf(l), l.name, ArgsOf(l.args)>>
FactOf(c) == LitOf(c.head)
QueryOf(c) == <<c.head.name, ArgsOf(c.head.args)>>
RuleOf(c) == <<LitOf(c.head), [i \in 1..Len(c.body) |-> LitOf(c.body[i])]>>

RECURSIVE Select(_, _)
Select(prog, kind) ==
    IF prog = <<>> THEN <<>>
    ELSE (IF prog[1].kind = kind THEN <<prog[1]>> ELSE <<>>) \o Select(Tail(prog), kind)

FactClauses == Select(program, "fact")
RuleClauses == Select(program, "rule")
QueryClauses == Select(program, "query")
DeclClauses == Select(program, "declaration")

Valid(prog) == \A i \in 1..Len(prog) : prog[i].kind # "raw"
Done == pc = "idle" /\ outcome # "none"
Accepted == Done /\ outcome = "accepted"
Failed == Done /\ outcome \in {"lexical error", "syntax error"}
IsPrefix(s, t) == Len(s) <= Len(t) /\ SubSeq(t, 1, Len(s)) = s
Count(s, x) == Cardinality({i \in 1..Len(s) : s[i] = x})

\* every clause of a valid program got its entry: the three collections grew
\* by the number of clauses of their kind
Grown ==
    /\ Len(facts) = Len(pre.facts) + Len(FactClauses)
    /\ Len(rules) = Len(pre.rules) + Len(RuleClauses)
    /\ Len(queries) = Len(pre.queries) + Len(QueryClauses)

\* the entry of the i-th fact, rule or query clause of the last program
NewFact(i) == facts[Len(pre.facts) + i]
NewRule(i) == rules[Len(pre.rules) + i]
NewQuery(i) == queries[Len(pre.queries) + i]

\* ------------------------------------------------------------------------
\* C1: a valid program parsed into an empty store leaves in facts, rules
\* and queries exactly the entries of its fact, rule and query clauses, in
\* source order, each clause in the collection of its kind only.
\* ------------------------------------------------------------------------
C1_StoreIsProgram ==
    (Done /\ Valid(program) /\ pre.facts = <<>> /\ pre.rules = <<>> /\ pre.queries = <<>>)
        => /\ outcome = "accepted"
           /\ facts = [i \in 1..Len(FactClauses) |-> FactOf(FactClauses[i])]
           /\ rules = [i \in 1..Len(RuleClauses) |-> RuleOf(RuleClauses[i])]
           /\ queries = [i \in 1..Len(QueryClauses) |-> QueryOf(QueryClauses[i])]

\* ------------------------------------------------------------------------
\* C2: the antecedents stored for a rule c :- a1, ..., an are a1, ..., an in
\* source order.
\* ------------------------------------------------------------------------
C2_AntecedentsInSourceOrder ==
    (Accepted /\ Valid(program))
        => /\ Len(rules) = Len(pre.rules) + Len(RuleClauses)
           /\ \A i \in 1..Len(RuleClauses) :
                NewRule(i)[2] = [j \in 1..Len(RuleClauses[i].body) |->
                                    LitOf(RuleClauses[i].body[j])]

\* ------------------------------------------------------------------------
\* C3: a parse that ends in a lexical or a syntax error leaves facts, rules
\* and queries as they were before the call.
\* ------------------------------------------------------------------------
C3_FailedParseLeavesStore ==
    Failed => facts = pre.facts /\ rules = pre.rules /\ queries = pre.queries

\* ------------------------------------------------------------------------
\* C4: + - % * are left-associative on one precedence tier: an argument
\* a op1 b op2 c ... is stored as the tree grouped from the left.
\* ------------------------------------------------------------------------
C4_LeftAssociative ==
    (Done /\ Valid(program))
        => /\ outcome = "accepted"
           /\ Len(facts) = Len(pre.facts) + Len(FactClauses)
           /\ \A i \in 1..Len(FactClauses) :
                /\ Len(NewFact(i)[3]) = Len(FactClauses[i].head.args)
                /\ \A j \in 1..Len(FactClauses[i].head.args) :
                      NewFact(i)[3][j] = TermOf(FactClauses[i].head.args[j])

\* X+12*X is stored as ((X + 12) * X)
C4_Witness ==
    /\ Accepted
    /\ program = <<Fact(Lit(FALSE, nm_f,
                       <<Chain(vX, <<Link("+", Num(12)), Link("*", vX)>>)>>))>>
    /\ facts = <<<<1, nm_f, <<Node(Node(PyStr(<<"X">>), "+", PyInt(12)), "*",
                                  PyStr(<<"X">>))>>>>>>

\* ------------------------------------------------------------------------
\* C5: the layout of a stored Term.
\* ------------------------------------------------------------------------
OperatorTexts == {<<"+">>, <<"-">>, <<"*">>, <<"%">>}
IsOperator(t) == t.k = "str" /\ t.v \in OperatorTexts
IsLeaf(t) ==
    \/ t.k = "int" /\ t.v \in Nat
    \/ t.k = "str" /\ Len(t.v) > 0 /\ t.v[1] \in Upper

\* (left, operator, right)
RECURSIVE IsInfixTerm(_)
IsInfixTerm(t) ==
    IF t.k = "tuple"
    THEN /\ Len(t.v) = 3
         /\ IsOperator(t.v[2])
         /\ IsInfixTerm(t.v[1])
         /\ IsInfixTerm(t.v[3])
    ELSE IsLeaf(t)

\* (operator, left, right)
RECURSIVE IsPrefixTerm(_)
IsPrefixTerm(t) ==
    IF t.k = "tuple"
    THEN /\ Len(t.v) = 3
         /\ IsOperator(t.v[1])
         /\ IsPrefixTerm(t.v[2])
         /\ IsPrefixTerm(t.v[3])
    ELSE IsLeaf(t)

\* the operands of a stored Term from left to right, under either layout
RECURSIVE InfixLeaves(_)
InfixLeaves(t) ==
    IF t.k = "tuple" THEN InfixLeaves(t.v[1]) \o InfixLeaves(t.v[3]) ELSE <<t>>

RECURSIVE PrefixLeaves(_)
PrefixLeaves(t) ==
    IF t.k = "tuple" THEN PrefixLeaves(t.v[2]) \o PrefixLeaves(t.v[3]) ELSE <<t>>

\* the operands of an argument of the source, as the values they denote
ChainLeaves(c) ==
    <<Leaf(c.first)>> \o [i \in 1..Len(c.rest) |-> Leaf(c.rest[i].arg)]

\* every parameter list the store holds
StoredArgs ==
    {facts[i][3] : i \in 1..Len(facts)}
        \cup {queries[i][2] : i \in 1..Len(queries)}
        \cup {rules[i][1][3] : i \in 1..Len(rules)}
        \cup UNION {{rules[i][2][j][3] : j \in 1..Len(rules[i][2])} : i \in 1..Len(rules)}

\* C5 as stated: every stored arithmetic Term is a 3-tuple (operator, left,
\* right) whose first component is one of + - * %; an integer literal is
\* stored as an integer and a variable name as its text.
C5_OperatorFirst ==
    /\ \A args \in StoredArgs : \A j \in 1..Len(args) : IsPrefixTerm(args[j])
    /\ (Accepted /\ Valid(program) /\ Grown)
          => \A i \in 1..Len(FactClauses) : \A j \in 1..Len(NewFact(i)[3]) :
                PrefixLeaves(NewFact(i)[3][j]) = ChainLeaves(FactClauses[i].head.args[j])

\* C5 as amended: every stored arithmetic Term is a 3-tuple (left, operator,
\* right): its second component is one of + - * % and its first and third
\* are the operand Terms; an integer literal is stored as an integer and a
\* variable name as its text.
C5_OperatorSecond ==
    /\ \A args \in StoredArgs : \A j \in 1..Len(args) : IsInfixTerm(args[j])
    /\ (Accepted /\ Valid(program) /\ Grown)
          => \A i \in 1..Len(FactClauses) : \A j \in 1..Len(NewFact(i)[3]) :
                InfixLeaves(NewFact(i)[3][j]) = ChainLeaves(FactClauses[i].head.args[j])

\* f(X-12) is stored with the argument (X, "-", 12)
C5_Witness ==
    /\ Accepted
    /\ program = <<Fact(Lit(FALSE, nm_f, <<Chain(vX, <<Link("-", Num(12))>>)>>))>>
    /\ facts[1][3][1] = PyTuple(<<PyStr(<<"X">>), PyStr(<<"-">>), PyInt(12)>>)

\* ------------------------------------------------------------------------
\* C6: after a valid program, Program.predicates has one entry for every
\* name declared so far; a name the program declares has the arity of its
\* last declaration in the program, every other name keeps its arity.
\* ------------------------------------------------------------------------
DeclaredNames == {DeclClauses[i].head.name : i \in 1..Len(DeclClauses)}
LastDeclaration(name) ==
    LET is == {i \in 1..Len(DeclClauses) : DeclClauses[i].head.name = name}
    IN  DeclClauses[CHOOSE i \in is : \A j \in is : j <= i]

C6_LastDeclarationWins ==
    (Done /\ Valid(program))
        => /\ outcome = "accepted"
           /\ DOMAIN predicates = DOMAIN pre.predicates \cup DeclaredNames
           /\ \A n \in DOMAIN predicates :
                predicates[n] = IF n \in DeclaredNames THEN LastDeclaration(n).arity
                                ELSE pre.predicates[n]

\* "f 2." in one parse and "f 3." in the next
C6_Witness ==
    /\ Accepted
    /\ program = <<Declaration(nm_f, 3)>>
    /\ nm_f \in DOMAIN pre.predicates
    /\ pre.predicates[nm_f] = 2
    /\ predicates[nm_f] = 3

\* ------------------------------------------------------------------------
\* C7: no step removes or reorders an entry of facts, rules or queries: what
\* a collection held before a step is a prefix of what it holds after; a
\* parse that is accepted leaves what the store held when it began followed
\* by one entry for each clause of the program.
\* ------------------------------------------------------------------------
AppendedOnAccept ==
    (Accepted /\ Valid(program))
        => /\ IsPrefix(pre.facts, facts)
           /\ IsPrefix(pre.rules, rules)
           /\ IsPrefix(pre.queries, queries)
           /\ Grown
           /\ \A i \in 1..Len(FactClauses) : NewFact(i) = FactOf(FactClauses[i])
           /\ \A i \in 1..Len(QueryClauses) : NewQuery(i) = QueryOf(QueryClauses[i])
           /\ \A i \in 1..Len(RuleClauses) : NewRule(i)[1] = LitOf(RuleClauses[i].head)

C7_AppendOnly ==
    [][/\ IsPrefix(facts, facts')
       /\ IsPrefix(rules, rules')
       /\ IsPrefix(queries, queries')
       /\ AppendedOnAccept']_vars

\* a second accepted parse has added its fact behind the first parse's
C7_Witness ==
    /\ Accepted
    /\ pre.facts # <<>>
    /\ Len(facts) = Len(pre.facts) + 1

\* ------------------------------------------------------------------------
\* C8: a stored literal has sign -1 exactly when the source introduces it
\* with the keyword not, and +1 otherwise; its name is the identifier after
\* the keyword; an identifier that only begins with not is a name; every
\* stored sign is +1 or -1.
\* ------------------------------------------------------------------------
SignName(l) == <<l[1], l[2]>>
SourceSignName(l) == <<SignOf(l), l.name>>

StoredLiterals ==
    {facts[i] : i \in 1..Len(facts)}
        \cup {rules[i][1] : i \in 1..Len(rules)}
        \cup UNION {{rules[i][2][j] : j \in 1..Len(rules[i][2])} : i \in 1..Len(rules)}

C8_SignIsNegation ==
    /\ \A l \in StoredLiterals : l[1] \in {1, -1}
    /\ (Done /\ Valid(program))
          => /\ outcome = "accepted"
             /\ Grown
             /\ \A i \in 1..Len(FactClauses) :
                    SignName(NewFact(i)) = SourceSignName(FactClauses[i].head)
             /\ \A i \in 1..Len(RuleClauses) :
                    LET stored == [j \in 1..Len(NewRule(i)[2]) |-> SignName(NewRule(i)[2][j])]
                        source == [j \in 1..Len(RuleClauses[i].body) |->
                                      SourceSignName(RuleClauses[i].body[j])]
                    IN  /\ SignName(NewRule(i)[1]) = SourceSignName(RuleClauses[i].head)
                        /\ Len(stored) = Len(source)
                        /\ \A j \in 1..Len(source) :
                              Count(stored, source[j]) = Count(source, source[j])

\* "not f(X)." and "notx(1)." in one program
C8_Witness ==
    /\ Accepted
    /\ facts = <<<<-1, nm_f, <<PyStr(<<"X">>)>>>>, <<1, nm_notx, <<PyInt(1)>>>>>>

\* ------------------------------------------------------------------------
\* C9: the k-th call of Program.next_var() returns k, so every call returns
\* more than all calls before it, and parsing leaves the counter alone.
\* ------------------------------------------------------------------------
C9_FreshIdentifiers ==
    /\ \A i \in 1..Len(returned) : returned[i] = i
    /\ next_variable = Len(returned) + 1

\* two calls have returned 1 and then 2
C9_Witness ==
    /\ Len(returned) = 2
    /\ returned[2] > returned[1]

\* ------------------------------------------------------------------------
\* C10: a lexical error reports the character at the lexer's position, which
\* begins no token, with the line 1 + the number of newlines before it in
\* this parse's input; the exit status is not zero and the parser holds no
\* token when the parse ends.
\* ------------------------------------------------------------------------
TokenStarts ==
    Lower \cup Upper \cup Digit \cup {"(", ")", ".", ",", "?", "+", "-", "*", "%"}

StartsToken(text, i) ==
    \/ text[i] \in TokenStarts
    \/ text[i] = ":" /\ i < Len(text) /\ text[i + 1] = "-"

NewlinesBefore(text, i) == Cardinality({j \in 1..(i - 1) : text[j] = "\n"})

C10_LexicalErrorReport ==
    (Done /\ outcome = "lexical error")
        => /\ lexpos \in 1..Len(lexdata)
           /\ ~StartsToken(lexdata, lexpos)
           /\ lexdata[lexpos] \notin t_ignore \cup {"\n"}
           /\ report.kind = "lexical"
           /\ report.text = <<lexdata[lexpos]>>
           /\ report.line = 1 + NewlinesBefore(lexdata, lexpos)
           /\ report.status # 0
           /\ lookahead = NoToken

\* "#" on line 3, after a declaration and an empty line
C10_Witness ==
    /\ Done
    /\ outcome = "lexical error"
    /\ report.text = <<"#">>
    /\ report.line = 3

====
